---- MODULE Spec2Model ----
(***************************************************************************)
(* Member store and sort engine of compound / enumeration datatypes        *)
(* (H5Tfields.c): H5T_get_nmembers, H5T_get_member_name,                   *)
(* H5Tget_member_index, H5T_sort_value and H5T_sort_name.                  *)
(*                                                                         *)
(* A datatype dt is a record                                               *)
(*   type   : H5T_COMPOUND, H5T_ENUM or another class                      *)
(*   size   : dt->size (width of one enum value, in bytes)                 *)
(*   sorted : u.compnd.sorted / u.enumer.sorted                            *)
(*   nmembs : u.compnd.nmembs / u.enumer.nmembs                            *)
(*   memb   : u.compnd.memb[], a sequence of [name, offset]                *)
(*   name   : u.enumer.name[], a sequence of strings                       *)
(*   value  : u.enumer.value, the flat byte array of nmembs*size bytes     *)
(* Strings are sequences of character codes (no NUL inside); C indices are *)
(* 0-based and are kept 0-based in membno, map[] and return values.        *)
(***************************************************************************)
EXTENDS Integers, Sequences, FiniteSets

VARIABLES dt, dt0, ndebug, map, call, aborted, phase, snap

vars == <<dt, dt0, ndebug, map, call, aborted, phase, snap>>

----------------------------------------------------------------------------
(* Bounds of the model and the input domains built from them. *)

MaxMembs == 3

MaxOffset == 2

Names == {<<97>>, <<97, 98>>, <<98>>}

Offsets == 0..MaxOffset

Sizes == {1, 2}

Bytes == {0, 1}

----------------------------------------------------------------------------
(* Program constants. *)

TbufSize == 32

H5T_COMPOUND == "H5T_COMPOUND"

H5T_ENUM == "H5T_ENUM"

H5T_INTEGER == "H5T_INTEGER"

H5T_SORT_NONE == "H5T_SORT_NONE"

H5T_SORT_NAME == "H5T_SORT_NAME"

H5T_SORT_VALUE == "H5T_SORT_VALUE"

----------------------------------------------------------------------------
(* C library functions, computed as the library computes them. *)

MinOf(S) == CHOOSE x \in S : \A y \in S : x <= y

\* s[i] of a NUL-terminated string, i counted from 1; the terminator is 0.
CharAt(s, i) == IF i <= Len(s) THEN s[i] ELSE 0

\* strcmp: difference of the first pair of differing (unsigned) characters.
HDstrcmp(a, b) ==
    LET m == IF Len(a) >= Len(b) THEN Len(a) ELSE Len(b)
        d == {i \in 1..m : CharAt(a, i) # CharAt(b, i)}
    IN  IF d = {} THEN 0 ELSE CharAt(a, MinOf(d)) - CharAt(b, MinOf(d))

\* memcmp(buf+p, buf+q, n): difference of the first differing byte pair.
HDmemcmp(buf, p, q, n) ==
    LET d == {k \in 0..(n - 1) : buf[p + k + 1] # buf[q + k + 1]}
    IN  IF d = {} THEN 0 ELSE buf[p + MinOf(d) + 1] - buf[q + MinOf(d) + 1]

\* strdup: a fresh string holding the characters of s up to its terminator.
H5MM_xstrdup(s) == [i \in 1..Len(s) |-> CharAt(s, i)]

----------------------------------------------------------------------------
(* Accessors shared by the claims (not program code). *)

IsComposite(d) == d.type \in {H5T_COMPOUND, H5T_ENUM}

\* name of the member at C index i
NameAt(d, i) == IF d.type = H5T_COMPOUND THEN d.memb[i + 1].name ELSE d.name[i + 1]

\* sort key of the member at C index i: offset, or the value's raw bytes
KeyAt(d, i) ==
    IF d.type = H5T_COMPOUND THEN <<d.memb[i + 1].offset>>
    ELSE SubSeq(d.value, i * d.size + 1, i * d.size + d.size)

\* the member at C index i as one unit
MemberAt(d, i) == <<NameAt(d, i), KeyAt(d, i)>>

Members(d) == [i \in 1..d.nmembs |-> MemberAt(d, i - 1)]

UniqueNames(d) ==
    \A i, j \in 0..(d.nmembs - 1) : i # j => NameAt(d, i) # NameAt(d, j)

UniqueKeys(d) ==
    \A i, j \in 0..(d.nmembs - 1) : i # j => KeyAt(d, i) # KeyAt(d, j)

\* lexicographic order on equal-length sequences of naturals
SeqLess(a, b) ==
    \E k \in 1..Len(a) : a[k] < b[k] /\ \A h \in 1..(k - 1) : a[h] = b[h]

\* lexicographic order on strings, a proper prefix first
StrLess(a, b) ==
    \/ Len(a) < Len(b) /\ SubSeq(b, 1, Len(a)) = a
    \/ \E k \in 1..Len(a) :
          /\ k <= Len(b)
          /\ a[k] < b[k]
          /\ \A h \in 1..(k - 1) : a[h] = b[h]

----------------------------------------------------------------------------
(* Member store: H5T_get_nmembers, H5T_get_member_name, H5Tget_member_index *)

\* [status, ret]: the member count, or FAIL for another type class.
H5T_get_nmembers(d) ==
    IF d.type = H5T_COMPOUND THEN [status |-> "SUCCEED", ret |-> d.nmembs]
    ELSE IF d.type = H5T_ENUM THEN [status |-> "SUCCEED", ret |-> d.nmembs]
    ELSE [status |-> "FAIL", ret |-> -1]

\* [status, rname]: a copy of the name at membno, or NULL (status FAIL).
H5T_get_member_name(d, membno) ==
    IF d.type = H5T_COMPOUND THEN
        IF membno < 0 \/ membno >= d.nmembs
        THEN [status |-> "FAIL", rname |-> <<>>]
        ELSE [status |-> "SUCCEED", rname |-> H5MM_xstrdup(d.memb[membno + 1].name)]
    ELSE IF d.type = H5T_ENUM THEN
        IF membno < 0 \/ membno >= d.nmembs
        THEN [status |-> "FAIL", rname |-> <<>>]
        ELSE [status |-> "SUCCEED", rname |-> H5MM_xstrdup(d.name[membno + 1])]
    ELSE [status |-> "FAIL", rname |-> <<>>]

\* mutant: the negation of the comparison result is dropped
NameDiffers(a, b) == HDstrcmp(a, b) # 0

\* the test !HDstrcmp(member name, name) of the lookup loops
NameMatches(a, b) == HDstrcmp(a, b) = 0

\* for(i...; i<nmembs; i++) if(!HDstrcmp(name[i], name)) HGOTO_DONE(i);
RECURSIVE ScanUp(_, _, _)
ScanUp(d, name, i) ==
    IF i < d.nmembs THEN
        IF d.type = H5T_COMPOUND /\ NameMatches(d.memb[i + 1].name, name) THEN i
        ELSE IF d.type = H5T_ENUM /\ NameMatches(d.name[i + 1], name) THEN i
        ELSE ScanUp(d, name, i + 1)
    ELSE -1

\* mutant: the loop runs from the last member down
RECURSIVE ScanDown(_, _, _)
ScanDown(d, name, i) ==
    IF i >= 0 THEN
        IF d.type = H5T_COMPOUND /\ NameMatches(d.memb[i + 1].name, name) THEN i
        ELSE IF d.type = H5T_ENUM /\ NameMatches(d.name[i + 1], name) THEN i
        ELSE ScanDown(d, name, i - 1)
    ELSE -1

H5Tget_member_index_last(d, name) ==
    IF IsComposite(d) THEN ScanDown(d, name, d.nmembs - 1) ELSE -1

\* index of the first member named name, or FAIL (-1): not found, or another
\* type class
H5Tget_member_index(d, name) ==
    IF IsComposite(d) THEN ScanUp(d, name, 0) ELSE -1

----------------------------------------------------------------------------
(* Sort engine: H5T_sort_value and H5T_sort_name.  The two functions are    *)
(* the same bubble sort four times over (compound / enum, by value / by     *)
(* name); the model shares the loop and keeps the four comparisons and the  *)
(* two swaps as the code has them.                                          *)

NullMap == [null |-> TRUE, a |-> <<>>]

IdentityMap(n) == [null |-> FALSE, a |-> [k \in 1..n |-> k - 1]]

\* mutant: the comparison is turned round
LessByValue(d, j) ==
    IF d.type = H5T_COMPOUND
    THEN d.memb[j + 1].offset < d.memb[j + 2].offset
    ELSE HDmemcmp(d.value, j * d.size, (j + 1) * d.size, d.size) < 0

\* the swap test of H5T_sort_value's inner loops
GreaterByValue(d, j) ==
    IF d.type = H5T_COMPOUND
    THEN d.memb[j + 1].offset > d.memb[j + 2].offset
    ELSE HDmemcmp(d.value, j * d.size, (j + 1) * d.size, d.size) > 0

\* mutant: only the first characters of the two names are compared
GreaterByFirstChar(d, j) ==
    CharAt(NameAt(d, j), 1) > CharAt(NameAt(d, j + 1), 1)

\* the swap test of H5T_sort_name's inner loops
GreaterByName(d, j) ==
    IF d.type = H5T_COMPOUND
    THEN HDstrcmp(d.memb[j + 1].name, d.memb[j + 2].name) > 0
    ELSE HDstrcmp(d.name[j + 1], d.name[j + 2]) > 0

SwapAt(s, j) ==
    [x \in 1..Len(s) |-> IF x = j + 1 THEN s[j + 2]
                         ELSE IF x = j + 2 THEN s[j + 1] ELSE s[x]]

\* memcpy(tbuf, value+j*size, size); memcpy(value+j*size, value+(j+1)*size,
\* size); memcpy(value+(j+1)*size, tbuf, size)
SwapValues(v, j, size) ==
    LET tbuf == [k \in 0..(size - 1) |-> v[j * size + k + 1]]
        v1 == [x \in 1..Len(v) |->
                 IF x - 1 \in (j * size)..(j * size + size - 1)
                 THEN v[x + size] ELSE v[x]]
    IN  [x \in 1..Len(v) |->
           IF x - 1 \in ((j + 1) * size)..((j + 1) * size + size - 1)
           THEN tbuf[x - 1 - (j + 1) * size] ELSE v1[x]]

\* mutant: the enum swap exchanges the names and leaves the values in place
SwapNamesOnly(d, j) ==
    IF d.type = H5T_COMPOUND THEN [d EXCEPT !.memb = SwapAt(@, j)]
    ELSE [d EXCEPT !.name = SwapAt(@, j)]

\* exchange members j and j+1: the whole H5T_cmemb_t of a compound type, the
\* name pointer and the value bytes of an enum
SwapMembers(d, j) ==
    IF d.type = H5T_COMPOUND THEN [d EXCEPT !.memb = SwapAt(@, j)]
    ELSE [d EXCEPT !.name = SwapAt(@, j), !.value = SwapValues(@, j, d.size)]

\* mutant: the map is not exchanged with the members
KeepMap(m, j) == m

\* if (map) { x = map[j]; map[j] = map[j+1]; map[j+1] = x; }
SwapMap(m, j) == IF m.null THEN m ELSE [m EXCEPT !.a = SwapAt(@, j)]

Greater(d, order, j) ==
    IF order = H5T_SORT_VALUE THEN GreaterByValue(d, j) ELSE GreaterByName(d, j)

\* for (j=0, swapped=FALSE; j<i; j++) if (key[j] > key[j+1]) { swap; swapped=TRUE }
RECURSIVE InnerLoop(_, _, _, _)
InnerLoop(st, order, j, i) ==
    IF j < i THEN
        IF Greater(st.dt, order, j)
        THEN InnerLoop([st EXCEPT !.dt = SwapMembers(@, j),
                                  !.map = SwapMap(@, j),
                                  !.swapped = TRUE,
                                  !.swaps = @ + 1], order, j + 1, i)
        ELSE InnerLoop(st, order, j + 1, i)
    ELSE st

\* mutant: swapped is never set again, the sort stops after its first pass
OnePass(st, order, i) ==
    IF i > 0 /\ st.swapped
    THEN InnerLoop([st EXCEPT !.swapped = FALSE, !.passes = @ + 1], order, 0, i)
    ELSE st

\* for (i=nmembs-1, swapped=TRUE; i>0 && swapped; --i) { inner loop }
RECURSIVE OuterLoop(_, _, _)
OuterLoop(st, order, i) ==
    IF i > 0 /\ st.swapped
    THEN OuterLoop(InnerLoop([st EXCEPT !.swapped = FALSE, !.passes = @ + 1],
                             order, 0, i), order, i - 1)
    ELSE st

\* the "I never trust a sort" loops: every adjacent pair strictly ascending
PostSortCheck(d, order) ==
    \A i \in 0..(d.nmembs - 2) :
        IF order = H5T_SORT_VALUE THEN
            IF d.type = H5T_COMPOUND
            THEN d.memb[i + 1].offset < d.memb[i + 2].offset
            ELSE HDmemcmp(d.value, i * d.size, (i + 1) * d.size, d.size) < 0
        ELSE
            IF d.type = H5T_COMPOUND
            THEN HDstrcmp(d.memb[i + 1].name, d.memb[i + 2].name) < 0
            ELSE HDstrcmp(d.name[i + 1], d.name[i + 2]) < 0

\* mutant: another type class is reported to the caller as an error
CheckArgsFail(d, nd) == IF IsComposite(d) THEN "OK" ELSE "FAIL"

\* assert(H5T_COMPOUND==dt->type || H5T_ENUM==dt->type): aborts the program
\* in a build with assertions, is no code at all under NDEBUG
CheckArgs(d, nd) == IF IsComposite(d) \/ nd THEN "OK" ELSE "ABORT"

\* mutant: the test of the memoized order is gone, the sort always runs
NeverSorted(d, order) == FALSE

\* the negation of if (H5T_SORT_x != dt->u.{compnd,enumer}.sorted)
AlreadySorted(d, order) == d.sorted = order

\* mutant: the order reached is not recorded
KeepSorted(d, order) == d

\* dt->u.{compnd,enumer}.sorted = H5T_SORT_x
SetSorted(d, order) == [d EXCEPT !.sorted = order]

Outcome(d, m, status, swaps, passes) ==
    [dt |-> d, map |-> m, status |-> status, swaps |-> swaps, passes |-> passes]

\* After the loops: the self-check (a build with assertions), then done.
Finish(st, order, nd) ==
    Outcome(st.dt, st.map,
            IF ~nd /\ ~PostSortCheck(st.dt, order) THEN "ABORT" ELSE "SUCCEED",
            st.swaps, st.passes)

\* The body shared by the two sorts.  nd: the build defines NDEBUG.  The
\* assertion size <= sizeof(tbuf) follows the assignment of sorted; the widths
\* the specifications start from never exceed the buffer.
Sort(d, m, order, nd) ==
    IF CheckArgs(d, nd) # "OK" THEN Outcome(d, m, CheckArgs(d, nd), 0, 0)
    ELSE IF ~IsComposite(d) THEN Outcome(d, m, "SUCCEED", 0, 0)
    ELSE IF AlreadySorted(d, order) THEN Outcome(d, m, "SUCCEED", 0, 0)
    ELSE IF d.type = H5T_ENUM /\ ~nd /\ ~(d.size <= TbufSize)
    THEN Outcome(SetSorted(d, order), m, "ABORT", 0, 0)
    ELSE
        Finish(OuterLoop([dt |-> SetSorted(d, order), map |-> m,
                          swapped |-> TRUE, swaps |-> 0, passes |-> 0],
                         order, d.nmembs - 1), order, nd)

H5T_sort_value(d, m, nd) == Sort(d, m, H5T_SORT_VALUE, nd)

H5T_sort_name(d, m, nd) == Sort(d, m, H5T_SORT_NAME, nd)

----------------------------------------------------------------------------
(* The datatypes a caller can hold before the first call: members inserted  *)
(* in any order, nothing sorted yet.                                        *)

MkCompound(nm, off) ==
    [type |-> H5T_COMPOUND, size |-> 0, sorted |-> H5T_SORT_NONE,
     nmembs |-> Len(nm),
     memb |-> [i \in 1..Len(nm) |-> [name |-> nm[i], offset |-> off[i]]],
     name |-> <<>>, value |-> <<>>]

MkEnum(nm, sz, v) ==
    [type |-> H5T_ENUM, size |-> sz, sorted |-> H5T_SORT_NONE,
     nmembs |-> Len(nm), memb |-> <<>>, name |-> nm, value |-> v]

OtherType ==
    [type |-> H5T_INTEGER, size |-> 0, sorted |-> H5T_SORT_NONE,
     nmembs |-> 0, memb |-> <<>>, name |-> <<>>, value |-> <<>>]

\* the keys are pairwise distinct and ascending in the order of insertion
AscendingKeys(d) ==
    \A i \in 0..(d.nmembs - 2) : SeqLess(KeyAt(d, i), KeyAt(d, i + 1))

NoSnap == [first |-> <<>>, last |-> <<>>]

\* The record of the last call: its arguments, the datatype before it and
\* what it returned.
CallRecord(op, membno, name, mapIn, pre, status, ret, rname, swaps, passes) ==
    [op |-> op, membno |-> membno, name |-> name, mapIn |-> mapIn, pre |-> pre,
     status |-> status, ret |-> ret, rname |-> rname,
     swaps |-> swaps, passes |-> passes]

Start(d) ==
    /\ ndebug \in BOOLEAN
    /\ dt = d
    /\ dt0 = d
    /\ map = NullMap
    /\ call = CallRecord("none", -1, <<>>, NullMap, d, "SUCCEED", -1, <<>>, 0, 0)
    /\ aborted = FALSE
    /\ phase = 0
    /\ snap = NoSnap

\* Member names unique within the datatype (the declared invariant of the
\* data model); offsets and values are arbitrary, equal ones included.
Init ==
    \/ Start(OtherType)
    \/ \E n \in 0..MaxMembs : \E nm \in [1..n -> Names] :
          /\ \A i, j \in 1..n : i # j => nm[i] # nm[j]
          /\ \/ \E off \in [1..n -> Offsets] : Start(MkCompound(nm, off))
             \/ \E sz \in Sizes : \E v \in [1..(n * sz) -> Bytes] :
                   Start(MkEnum(nm, sz, v))

\* Member names arbitrary, duplicates included; the members were inserted in
\* the order of their (pairwise distinct) offsets / values.
InitDup ==
    \/ Start(OtherType)
    \/ \E n \in 0..MaxMembs : \E nm \in [1..n -> Names] :
          \/ \E off \in [1..n -> Offsets] :
                AscendingKeys(MkCompound(nm, off)) /\ Start(MkCompound(nm, off))
          \/ \E sz \in Sizes : \E v \in [1..(n * sz) -> Bytes] :
                AscendingKeys(MkEnum(nm, sz, v)) /\ Start(MkEnum(nm, sz, v))

\* The maps a caller passes: none, or one initialised to 0..nmembs-1.
MapArgs == {NullMap, IdentityMap(dt.nmembs)}

\* H5T_sort_value(dt, map)
SortValue(m) ==
    /\ ~aborted
    /\ \E r \in {H5T_sort_value(dt, m, ndebug)} :
           /\ dt' = r.dt
           /\ map' = r.map
           /\ aborted' = (r.status = "ABORT")
           /\ call' = CallRecord("sort_value", -1, <<>>, m, dt, r.status, -1, <<>>,
                                 r.swaps, r.passes)
    /\ phase' = IF phase \in {1, 3} THEN 2 ELSE 0
    /\ snap' = IF phase \in {1, 3} THEN [first |-> snap.last, last |-> snap.last]
               ELSE NoSnap
    /\ UNCHANGED <<dt0, ndebug>>

\* H5T_sort_name(dt, map)
SortName(m) ==
    /\ ~aborted
    /\ \E r \in {H5T_sort_name(dt, m, ndebug)} :
           /\ dt' = r.dt
           /\ map' = r.map
           /\ aborted' = (r.status = "ABORT")
           /\ call' = CallRecord("sort_name", -1, <<>>, m, dt, r.status, -1, <<>>,
                                 r.swaps, r.passes)
           /\ snap' = [first |-> IF phase = 2 THEN snap.first ELSE Members(r.dt),
                       last |-> Members(r.dt)]
    /\ phase' = IF phase = 2 THEN 3 ELSE 1
    /\ UNCHANGED <<dt0, ndebug>>

\* H5T_get_nmembers(dt)
GetNmembers ==
    /\ ~aborted
    /\ \E r \in {H5T_get_nmembers(dt)} :
           call' = CallRecord("get_nmembers", -1, <<>>, NullMap, dt, r.status,
                              r.ret, <<>>, 0, 0)
    /\ map' = NullMap
    /\ UNCHANGED <<dt, dt0, ndebug, aborted, phase, snap>>

\* H5T_get_member_name(dt, membno)
GetMemberName(membno) ==
    /\ ~aborted
    /\ \E r \in {H5T_get_member_name(dt, membno)} :
           call' = CallRecord("get_member_name", membno, <<>>, NullMap, dt,
                              r.status, -1, r.rname, 0, 0)
    /\ map' = NullMap
    /\ UNCHANGED <<dt, dt0, ndebug, aborted, phase, snap>>

\* H5Tget_member_index(type_id, name)
GetMemberIndex(name) ==
    /\ ~aborted
    /\ \E r \in {H5Tget_member_index(dt, name)} :
           call' = CallRecord("get_member_index", -1, name, NullMap, dt,
                              IF r < 0 THEN "FAIL" ELSE "SUCCEED", r, <<>>, 0, 0)
    /\ map' = NullMap
    /\ UNCHANGED <<dt, dt0, ndebug, aborted, phase, snap>>

Next ==
    \/ \E m \in MapArgs : SortValue(m)
    \/ \E m \in MapArgs : SortName(m)
    \/ GetNmembers
    \/ \E membno \in -1..dt.nmembs : GetMemberName(membno)
    \/ \E name \in Names : GetMemberIndex(name)

Spec == Init /\ [][Next]_vars

SpecDup == InitDup /\ [][Next]_vars

----------------------------------------------------------------------------
(* Vocabulary of the claims. *)

IsSort == call.op \in {"sort_value", "sort_name"}

IsRead == call.op \in {"get_nmembers", "get_member_name", "get_member_index"}

Requested == IF call.op = "sort_value" THEN H5T_SORT_VALUE ELSE H5T_SORT_NAME

KeyLeq(a, b) == a = b \/ SeqLess(a, b)

Count(seq, x) == Cardinality({i \in 1..Len(seq) : seq[i] = x})

Range(seq) == {seq[i] : i \in 1..Len(seq)}

IsPermutationOf(a, b) ==
    /\ Len(a) = Len(b)
    /\ \A x \in Range(a) \cup Range(b) : Count(a, x) = Count(b, x)

\* the C indices at which d holds a member named name
Hits(d, name) == {i \in 0..(d.nmembs - 1) : NameAt(d, i) = name}

----------------------------------------------------------------------------
(* C1: the memoized sort tag is truthful.  With unique member names, in    *)
(* every reachable state: sorted = H5T_SORT_VALUE implies every adjacent   *)
(* pair of members has key[i] <= key[i+1] (offset, or raw value bytes),    *)
(* and sorted = H5T_SORT_NAME implies name[i] < name[i+1].                 *)
C1_SortTagTruthful ==
    (IsComposite(dt) /\ UniqueNames(dt)) =>
        /\ dt.sorted = H5T_SORT_VALUE =>
              \A i \in 0..(dt.nmembs - 2) : KeyLeq(KeyAt(dt, i), KeyAt(dt, i + 1))
        /\ dt.sorted = H5T_SORT_NAME =>
              \A i \in 0..(dt.nmembs - 2) : StrLess(NameAt(dt, i), NameAt(dt, i + 1))

\* a sort by name that had to move members of a three-member datatype that
\* was sorted by value before
C1_Witness ==
    /\ call.op = "sort_name"
    /\ call.pre.sorted = H5T_SORT_VALUE
    /\ dt.sorted = H5T_SORT_NAME
    /\ dt.nmembs = 3
    /\ call.swaps >= 2

(* C2: permutation correctness of the map.  After a sort that was handed a *)
(* map initialised to 0..n-1 returns, the map is a permutation of 0..n-1   *)
(* and the member now at k is the member that was at map[k] before.        *)
C2_MapIsThePermutation ==
    (/\ IsSort
     /\ IsComposite(call.pre)
     /\ call.mapIn = IdentityMap(call.pre.nmembs)
     /\ call.status = "SUCCEED") =>
        /\ ~map.null
        /\ Len(map.a) = dt.nmembs
        /\ Range(map.a) = 0..(dt.nmembs - 1)
        /\ \A k \in 0..(dt.nmembs - 1) :
              MemberAt(dt, k) = MemberAt(call.pre, map.a[k + 1])

\* members [b@2, a@0, ab@1] sorted by offset give map [1, 2, 0]
C2_Witness ==
    /\ call.op = "sort_value"
    /\ call.status = "SUCCEED"
    /\ call.pre.type = H5T_COMPOUND
    /\ call.pre.memb = <<[name |-> <<98>>, offset |-> 2],
                         [name |-> <<97>>, offset |-> 0],
                         [name |-> <<97, 98>>, offset |-> 1]>>
    /\ call.mapIn = IdentityMap(3)
    /\ map = [null |-> FALSE, a |-> <<1, 2, 0>>]

(* C3: short circuit.  A sort called while sorted already equals the       *)
(* requested order returns at once: success, no pass of the loop, no swap, *)
(* the datatype (members and sorted) and the supplied map as they were.    *)
C3_ShortCircuit ==
    (IsSort /\ IsComposite(call.pre) /\ call.pre.sorted = Requested) =>
        /\ call.status = "SUCCEED"
        /\ call.passes = 0
        /\ call.swaps = 0
        /\ dt = call.pre
        /\ map = call.mapIn

\* the second of two sorts by value of three members, a map supplied
C3_Witness ==
    /\ call.op = "sort_value"
    /\ call.pre.sorted = H5T_SORT_VALUE
    /\ call.pre.nmembs = 3
    /\ Members(call.pre) # Members(dt0)
    /\ ~call.mapIn.null

(* C4, as stated: for a datatype that is neither compound nor enum both    *)
(* sorts return a failure result and leave the datatype and the map        *)
(* unchanged.                                                              *)
C4_Original ==
    (IsSort /\ ~IsComposite(call.pre)) =>
        /\ call.status = "FAIL"
        /\ dt = call.pre
        /\ map = call.mapIn

(* C4, amended: for a datatype that is neither compound nor enum the sorts *)
(* never return a failure result: a build with assertions stops at the     *)
(* entry assertion, a build with NDEBUG returns success; either way the    *)
(* datatype and the supplied map are unchanged.                            *)
C4_UnsupportedKind ==
    (IsSort /\ ~IsComposite(call.pre)) =>
        /\ call.status = (IF ndebug THEN "SUCCEED" ELSE "ABORT")
        /\ dt = call.pre
        /\ map = call.mapIn

\* a sort by name of an integer type, in a build with NDEBUG
C4_Witness ==
    /\ call.op = "sort_name"
    /\ call.pre.type = H5T_INTEGER
    /\ ndebug
    /\ call.status = "SUCCEED"

(* C5: lookup round trip.  With unique member names, in any sort state,    *)
(* for every index i in 0..nmembs-1 the index of the name returned for i   *)
(* is i.                                                                   *)
C5_LookupRoundTrip ==
    (IsComposite(dt) /\ UniqueNames(dt)) =>
        \A i \in 0..(dt.nmembs - 1) :
            /\ H5T_get_member_name(dt, i).status = "SUCCEED"
            /\ H5Tget_member_index(dt, H5T_get_member_name(dt, i).rname) = i

\* a lookup that finds its name at the last index of a datatype the sorts
\* have reordered
C5_Witness ==
    /\ call.op = "get_member_index"
    /\ dt.sorted = H5T_SORT_NAME
    /\ dt.nmembs = 3
    /\ Members(dt) # Members(dt0)
    /\ call.ret = 2
    /\ call.name = H5T_get_member_name(dt, 2).rname

(* C6: with unique member names, after the calls sort by name, sort by     *)
(* value, sort by name the members (names with their offsets / values) are *)
(* in the same sequence as after the first of the three calls.             *)
C6_NameOrderReproducible ==
    (phase = 3 /\ IsComposite(dt) /\ UniqueNames(dt)) =>
        Members(dt) = snap.first

\* the third call had to move members: the sort by value had changed the
\* order the first sort by name left
C6_Witness ==
    /\ phase = 3
    /\ call.op = "sort_name"
    /\ call.status = "SUCCEED"
    /\ call.swaps > 0
    /\ dt.nmembs = 3

(* C7: sort-state machine.  A sort of a compound or enum datatype that     *)
(* returns success leaves sorted equal to the order asked for, whatever it *)
(* was before; the three read operations leave sorted as it was; no call   *)
(* takes sorted back to H5T_SORT_NONE.                                     *)
C7_SortStateMachine ==
    /\ (IsSort /\ IsComposite(call.pre) /\ call.status = "SUCCEED") =>
           dt.sorted = Requested
    /\ IsRead => dt.sorted = call.pre.sorted
    /\ call.pre.sorted # H5T_SORT_NONE => dt.sorted # H5T_SORT_NONE

\* a sort by value of a datatype that was sorted by name
C7_Witness ==
    /\ call.op = "sort_value"
    /\ call.status = "SUCCEED"
    /\ call.pre.sorted = H5T_SORT_NAME
    /\ dt.sorted = H5T_SORT_VALUE
    /\ call.swaps > 0

(* C8: H5Tget_member_index returns the lowest current index.  For any      *)
(* compound or enum datatype, duplicate names allowed, and any name: the   *)
(* result is the least index holding that name, and not-found (-1) exactly *)
(* when no member has that name (always when nmembs = 0); the call leaves  *)
(* the datatype as it was.                                                 *)
C8_LowestIndexWins ==
    /\ IsComposite(dt) =>
          \A name \in Names :
              H5Tget_member_index(dt, name) =
                  (IF Hits(dt, name) = {} THEN -1 ELSE MinOf(Hits(dt, name)))
    /\ (call.op = "get_member_index" /\ IsComposite(call.pre)) =>
          /\ dt = call.pre
          /\ call.ret = (IF Hits(call.pre, call.name) = {} THEN -1
                         ELSE MinOf(Hits(call.pre, call.name)))

\* a lookup of a name held by two members, after a sort moved the members
C8_Witness ==
    /\ call.op = "get_member_index"
    /\ Cardinality(Hits(dt, call.name)) = 2
    /\ call.ret = 1
    /\ Members(dt) # Members(dt0)

C10_MembersMoveWhole ==
    IsComposite(dt) =>
        /\ dt.nmembs = dt0.nmembs
        /\ dt.size = dt0.size
        /\ Len(dt.memb) = Len(dt0.memb)
        /\ Len(dt.name) = Len(dt0.name)
        /\ Len(dt.value) = Len(dt0.value)
        /\ IsPermutationOf(Members(dt), Members(dt0))

\* an enum of three members with distinct two-byte values, reordered
C10_Witness ==
    /\ dt.type = H5T_ENUM
    /\ dt.size = 2
    /\ dt.nmembs = 3
    /\ UniqueKeys(dt)
    /\ call.op = "sort_value"
    /\ call.swaps >= 2

====
